---- MODULE Spec2Model ----
(***************************************************************************)
(* Model of src/main.js: the four UI controllers of the foundation site    *)
(* (Navigation, DonationModal, SmoothScroll, StatsAnimation).              *)
(*                                                                         *)
(* The DOM is the program state.  Every event-listener invocation, timer   *)
(* callback, observer callback and animation-frame callback is one atomic  *)
(* action (JavaScript runs each callback to completion).                   *)
(*                                                                         *)
(* Non-ASCII literals of the source are written in ASCII:                  *)
(*   "U+2630" is the hamburger glyph, "U+2715" the close glyph,            *)
(*   "CONFIRMAR DONACION" is the default process-button label.             *)
(* Texts of counter elements are sequences of one-character strings.       *)
(***************************************************************************)
EXTENDS Integers, Sequences, FiniteSets, TLC

VARIABLES
    dom,           \* which elements the document queries found (fixed per page)
    menu,          \* #main-nav class 'is-open', .menu-toggle aria-expanded, glyph
    scrolledTo,    \* id of the element last passed to scrollIntoView ("" = none)
    modal,         \* #modal-donacion: class 'is-visible', step displays, button
    selected,      \* the .btn-amount buttons carrying class 'selected'
    timers,        \* pending setTimeout callbacks of the payment simulation, FIFO
    hasAnimated,   \* StatsAnimation's one-shot flag
    observing,     \* the observer currently observes .stats-section
    text,          \* innerText of every .stat-item__number element
    chains,        \* one closure of animateCounters' forEach body per record
    rafQueue,      \* updateCount callbacks requested for the next frame
    frameBatch,    \* callbacks of the frame being run that have not run yet
    locale,        \* the host's default locale used by toLocaleString()
    last,          \* history: the handler that ran last and its target
    calls,         \* history: the calls the last handler made, in order
    prev,          \* history: the DOM state the last handler started from
    error,         \* history: the exception the last handler ended with
    animateCalls,  \* history: number of animateCounters invocations
    toggles,       \* history: toggle clicks since the menu was last forced closed
    amountClicked, \* history: some .btn-amount button has been clicked
    everOpened,    \* history: some donate trigger has been clicked
    confirmClicked \* history: the process button has been clicked

navVars   == <<menu, scrolledTo>>
modalVars == <<modal, selected, timers>>
statsVars == <<hasAnimated, observing, text, chains, rafQueue, frameBatch>>
histVars  == <<last, calls, prev, error, animateCalls, toggles, amountClicked,
          everOpened, confirmClicked>>
vars == <<dom, menu, scrolledTo, modal, selected, timers, hasAnimated,
          observing, text, chains, rafQueue, frameBatch, locale,
          last, calls, prev, error, animateCalls, toggles, amountClicked,
          everOpened, confirmClicked>>

(***************************************************************************)
(* Bounds of the model                                                     *)
(***************************************************************************)
MaxToggles == 8
NumOpenButtons == 2
NumAmountBtns == 3
MaxTimers == 2
NumCounters == 2
MaxEntries == 2

(***************************************************************************)
(* Program constants                                                       *)
(***************************************************************************)
FrameToggles == 1
FrameTimers == 1
FrameRuns == 2

PaymentDelay == 2000
duration == 2000
FrameMs == 16

OpenGlyph == "U+2715"
ClosedGlyph == "U+2630"
DefaultLabel == "CONFIRMAR DONACION"
ProcessingLabel == "Procesando..."

(***************************************************************************)
(* The document                                                            *)
(***************************************************************************)
ElementNames == {"menuToggle", "mainNav", "modal", "closeBtn", "processBtn",
                 "step1", "step2", "closeSuccessBtn", "statsSection"}
AllPresent == [e \in ElementNames |-> TRUE]

\* the a[href^="#"] links of the page, by the fragment after the '#'
\* ("" is the bare href "#"); ElementIds are the ids that exist in the page
Links == {"", "team", "mision", "contacto", "missing", "2024"}
ElementIds == {"team", "mision", "contacto", "modal-donacion"}
\* fragments f for which '#' + f is no valid selector (an id selector cannot
\* start with a digit): querySelector throws a SyntaxError for them
InvalidSelectors == {"2024"}

OpenButtons == 1..NumOpenButtons
AmountBtns == 1..NumAmountBtns
Counters == 1..NumCounters

Snapshot == [menu |-> menu, modal |-> modal, selected |-> selected]

\* no animation-frame callbacks of a frame in progress are outstanding: the
\* callbacks of one frame run back to back, other events wait for them
Idle == frameBatch = <<>>

(***************************************************************************)
(* MODULE 1: Navigation                                                    *)
(***************************************************************************)
\* setAttribute converts its value argument to a string
BoolToString(b) == IF b THEN "true" ELSE "false"

ClosedMenu == [open |-> FALSE, aria |-> "false", glyph |-> ClosedGlyph]

\* (the same listener without the line that swaps the glyph)
ToggleMenuKeepsGlyph(m) ==
    LET isOpen == ~m.open
    IN  [open |-> isOpen,
         aria |-> BoolToString(isOpen),
         glyph |-> m.glyph]

\* (the same listener writing the state read before the flip)
ToggleMenuStaleAria(m) ==
    LET isOpen == ~m.open
    IN  [open |-> isOpen,
         aria |-> BoolToString(m.open),
         glyph |-> IF isOpen THEN OpenGlyph ELSE ClosedGlyph]

\* the click listener of .menu-toggle
ToggleMenu(m) ==
    LET isOpen == ~m.open
    IN  [open |-> isOpen,
         aria |-> BoolToString(isOpen),
         glyph |-> IF isOpen THEN OpenGlyph ELSE ClosedGlyph]

\* (closeMenu without the reset of the glyph)
CloseMenuKeepsGlyph(m, d) ==
    IF ~d.mainNav THEN [menu |-> m, error |-> "TypeError"]
    ELSE IF m.open
         THEN IF ~d.menuToggle
              THEN [menu |-> [m EXCEPT !.open = FALSE], error |-> "TypeError"]
              ELSE [menu |-> [m EXCEPT !.open = FALSE, !.aria = "false"],
                    error |-> "none"]
         ELSE [menu |-> m, error |-> "none"]

\* Navigation.closeMenu; mainNav or menuToggle being null raises a TypeError
\* at the first property access
CloseMenu(m, d) ==
    IF ~d.mainNav THEN [menu |-> m, error |-> "TypeError"]
    ELSE IF m.open
         THEN IF ~d.menuToggle
              THEN [menu |-> [m EXCEPT !.open = FALSE], error |-> "TypeError"]
              ELSE [menu |-> [open |-> FALSE, aria |-> "false",
                              glyph |-> ClosedGlyph],
                    error |-> "none"]
         ELSE [menu |-> m, error |-> "none"]

ToggleClick ==
    /\ Idle
    /\ dom.menuToggle /\ dom.mainNav
    /\ toggles < MaxToggles
    /\ menu' = ToggleMenu(menu)
    /\ toggles' = toggles + 1
    /\ last' = [kind |-> "toggle", target |-> "menuToggle", index |-> 0, entries |-> <<>>]
    /\ calls' = <<>>
    /\ prev' = Snapshot
    /\ error' = "none"
    /\ UNCHANGED <<dom, scrolledTo, modalVars, statsVars, locale, animateCalls,
                   amountClicked,
          everOpened, confirmClicked>>

(***************************************************************************)
(* MODULE 2: SmoothScroll                                                  *)
(***************************************************************************)
\* document.querySelector('#' + frag): the element, null, or a SyntaxError
QuerySelector(frag) ==
    IF frag \in InvalidSelectors THEN "SyntaxError"
    ELSE IF frag \in ElementIds THEN frag ELSE "null"

\* the click listener of one a[href^="#"] link whose href is '#' + frag:
\* the calls it makes, in order, and the state it leaves
\* (the same listener with the menu closed before the scroll is issued)
linkHandlerClosesFirst(frag, m, sc, d) ==
    LET targetElement == QuerySelector(frag)
        r == CloseMenu(m, d)
    IN  IF frag = ""
        THEN [calls |-> <<"preventDefault">>,
              scrolledTo |-> sc, menu |-> m, error |-> "none"]
        ELSE IF targetElement = "SyntaxError"
        THEN [calls |-> <<"preventDefault">>,
              scrolledTo |-> sc, menu |-> m, error |-> "SyntaxError"]
        ELSE IF targetElement # "null"
        THEN [calls |-> <<"preventDefault", "closeMenu", "scrollIntoView">>,
              scrolledTo |-> targetElement, menu |-> r.menu, error |-> r.error]
        ELSE [calls |-> <<"preventDefault">>,
              scrolledTo |-> sc, menu |-> m, error |-> "none"]

linkHandler(frag, m, sc, d) ==
    LET targetElement == QuerySelector(frag)
        r == CloseMenu(m, d)
    IN  IF frag = ""
        THEN [calls |-> <<"preventDefault">>,
              scrolledTo |-> sc, menu |-> m, error |-> "none"]
        ELSE IF targetElement = "SyntaxError"
        THEN [calls |-> <<"preventDefault">>,
              scrolledTo |-> sc, menu |-> m, error |-> "SyntaxError"]
        ELSE IF targetElement # "null"
        THEN [calls |-> <<"preventDefault", "scrollIntoView", "closeMenu">>,
              scrolledTo |-> targetElement, menu |-> r.menu, error |-> r.error]
        ELSE [calls |-> <<"preventDefault">>,
              scrolledTo |-> sc, menu |-> m, error |-> "none"]

Called(name, log) == \E i \in 1..Len(log) : log[i] = name

\* click on one a[href^="#"] link
LinkClick(frag) ==
    LET h == linkHandler(frag, menu, scrolledTo, dom)
    IN  /\ Idle
        /\ calls' = h.calls
        /\ scrolledTo' = h.scrolledTo
        /\ menu' = h.menu
        /\ error' = h.error
        /\ toggles' = IF Called("closeMenu", h.calls) THEN 0 ELSE toggles
        /\ last' = [kind |-> "link", target |-> frag, index |-> 0,
                    entries |-> <<>>]
        /\ prev' = Snapshot
        /\ UNCHANGED <<dom, modalVars, statsVars, locale, animateCalls,
                       amountClicked,
          everOpened, confirmClicked>>

(***************************************************************************)
(* MODULE 4: DonationModal                                                 *)
(*                                                                         *)
(* display "" is an element without inline display (the stylesheet         *)
(* decides), opacity "" likewise.  Clicks on elements inside the modal     *)
(* are user clicks and reach them only while the overlay is shown; a       *)
(* disabled button dispatches no click event.                              *)
(***************************************************************************)
\* const closeModal = () => modal.classList.remove('is-visible')
closeModal(m) == [m EXCEPT !.visible = FALSE]

\* (resetModal without the assignments to the process button)
ResetModalKeepsButton(m, d) ==
    [modal |-> [m EXCEPT !.step1 = "block", !.step2 = "none"], error |-> "none"]

\* resetModal; a missing step container raises a TypeError at its line
resetModal(m, d) ==
    IF ~d.step1 THEN [modal |-> m, error |-> "TypeError"]
    ELSE LET m1 == [m EXCEPT !.step1 = "block"]
         IN  IF ~d.step2 THEN [modal |-> m1, error |-> "TypeError"]
             ELSE LET m2 == [m1 EXCEPT !.step2 = "none"]
                  IN  [modal |-> IF d.processBtn
                                 THEN [m2 EXCEPT !.label = DefaultLabel,
                                                 !.opacity = "1",
                                                 !.disabled = FALSE]
                                 ELSE m2,
                       error |-> "none"]

\* (the same listener without the test of e.target)
BackdropListenerAnyTarget(m, target) == closeModal(m)

\* the click listener of the modal root, reached by every click in the
\* modal (events bubble): closes only when the root itself was clicked
BackdropListener(m, target) ==
    IF target = "modal" THEN closeModal(m) ELSE m

\* (the same listener without the loop that clears every button)
SelectAmountNoClear(sel, btn) == sel \cup {btn}

\* the click listener of one .btn-amount button
SelectAmount(sel, btn) == (sel \ AmountBtns) \cup {btn}

\* (the same listener showing the success step without waiting)
StartProcessingShowsSuccess(m) ==
    [m EXCEPT !.label = ProcessingLabel, !.opacity = "0.7", !.disabled = TRUE,
              !.step1 = "none", !.step2 = "block"]

\* the process button's click listener, up to the setTimeout call
StartProcessing(m) ==
    [m EXCEPT !.label = ProcessingLabel, !.opacity = "0.7", !.disabled = TRUE]

\* (the callback without the line that shows step 2)
PaymentCallbackHidesOnly(m, d) ==
    IF ~d.step1 THEN [modal |-> m, error |-> "TypeError"]
    ELSE [modal |-> [m EXCEPT !.step1 = "none"], error |-> "none"]

\* the setTimeout callback
PaymentCallback(m, d) ==
    IF ~d.step1 THEN [modal |-> m, error |-> "TypeError"]
    ELSE LET m1 == [m EXCEPT !.step1 = "none"]
         IN  IF ~d.step2 THEN [modal |-> m1, error |-> "TypeError"]
             ELSE [modal |-> [m1 EXCEPT !.step2 = "block"], error |-> "none"]

Step1Shown(m) == m.step1 = "block" /\ m.step2 = "none"
Step2Shown(m) == m.step1 = "none" /\ m.step2 = "block"

ModalFrame == UNCHANGED <<dom, navVars, statsVars, locale, animateCalls, toggles>>

\* (the open handler clearing the pending payment timers as well)
OpenClickCancelsTimers(b) ==
    LET r == resetModal([modal EXCEPT !.visible = TRUE], dom)
    IN  /\ Idle
        /\ dom.modal
        /\ modal' = r.modal
        /\ error' = r.error
        /\ timers' = <<>>
        /\ last' = [kind |-> "open", target |-> "openBtn", index |-> b,
                    entries |-> <<>>]
        /\ calls' = <<"preventDefault">>
        /\ prev' = Snapshot
        /\ everOpened' = TRUE
        /\ UNCHANGED <<selected, amountClicked, confirmClicked>>
        /\ ModalFrame

\* click on one .btn--donate trigger
OpenClick(b) ==
    LET r == resetModal([modal EXCEPT !.visible = TRUE], dom)
    IN  /\ Idle
        /\ dom.modal
        /\ modal' = r.modal
        /\ error' = r.error
        /\ last' = [kind |-> "open", target |-> "openBtn", index |-> b, entries |-> <<>>]
        /\ calls' = <<"preventDefault">>
        /\ prev' = Snapshot
        /\ everOpened' = TRUE
        /\ UNCHANGED <<selected, timers, amountClicked, confirmClicked>>
        /\ ModalFrame

\* click on #close-modal
CloseClick ==
    /\ Idle
    /\ dom.modal /\ dom.closeBtn /\ modal.visible
    /\ modal' = BackdropListener(closeModal(modal), "closeBtn")
    /\ last' = [kind |-> "close", target |-> "closeBtn", index |-> 0, entries |-> <<>>]
    /\ calls' = <<>>
    /\ prev' = Snapshot
    /\ error' = "none"
    /\ UNCHANGED <<selected, timers, amountClicked,
          everOpened, confirmClicked>>
    /\ ModalFrame

\* click on #btn-close-success
CloseSuccessClick ==
    /\ Idle
    /\ dom.modal /\ dom.closeSuccessBtn /\ modal.visible
    /\ modal' = BackdropListener(closeModal(modal), "closeSuccessBtn")
    /\ last' = [kind |-> "close", target |-> "closeSuccessBtn", index |-> 0, entries |-> <<>>]
    /\ calls' = <<>>
    /\ prev' = Snapshot
    /\ error' = "none"
    /\ UNCHANGED <<selected, timers, amountClicked,
          everOpened, confirmClicked>>
    /\ ModalFrame

\* click on the overlay itself (e.target is the modal root)
BackdropClick ==
    /\ Idle
    /\ dom.modal /\ modal.visible
    /\ modal' = BackdropListener(modal, "modal")
    /\ last' = [kind |-> "backdrop", target |-> "modal", index |-> 0, entries |-> <<>>]
    /\ calls' = <<>>
    /\ prev' = Snapshot
    /\ error' = "none"
    /\ UNCHANGED <<selected, timers, amountClicked,
          everOpened, confirmClicked>>
    /\ ModalFrame

\* click on an element of the modal's content that has no listener of its own
ContentClick ==
    /\ Idle
    /\ dom.modal /\ modal.visible
    /\ modal' = BackdropListener(modal, "content")
    /\ last' = [kind |-> "content", target |-> "content", index |-> 0, entries |-> <<>>]
    /\ calls' = <<>>
    /\ prev' = Snapshot
    /\ error' = "none"
    /\ UNCHANGED <<selected, timers, amountClicked,
          everOpened, confirmClicked>>
    /\ ModalFrame

\* click on one .btn-amount button
AmountClick(btn) ==
    /\ Idle
    /\ dom.modal /\ modal.visible
    /\ selected' = SelectAmount(selected, btn)
    /\ modal' = BackdropListener(modal, "amountBtn")
    /\ last' = [kind |-> "amount", target |-> "amountBtn", index |-> btn, entries |-> <<>>]
    /\ calls' = <<>>
    /\ prev' = Snapshot
    /\ error' = "none"
    /\ amountClicked' = TRUE
    /\ UNCHANGED <<timers, everOpened, confirmClicked>>
    /\ ModalFrame

\* click on #btn-process-payment; sawStep1 records with the timer whether
\* step 1 was the step shown when the click set it
ProcessClick ==
    /\ Idle
    /\ dom.modal /\ dom.processBtn /\ modal.visible
    /\ ~modal.disabled
    /\ Len(timers) < MaxTimers
    /\ modal' = BackdropListener(StartProcessing(modal), "processBtn")
    /\ timers' = Append(timers, [delay |-> PaymentDelay,
                                 sawStep1 |-> Step1Shown(modal)])
    /\ last' = [kind |-> "process", target |-> "processBtn", index |-> 0, entries |-> <<>>]
    /\ calls' = <<"setTimeout">>
    /\ prev' = Snapshot
    /\ error' = "none"
    /\ confirmClicked' = TRUE
    /\ UNCHANGED <<selected, amountClicked, everOpened>>
    /\ ModalFrame

\* the oldest pending payment timer fires (equal delays fire in the order
\* they were set)
PaymentTimeout ==
    LET r == PaymentCallback(modal, dom)
    IN  /\ Idle
        /\ timers # <<>>
        /\ timers' = Tail(timers)
        /\ modal' = r.modal
        /\ error' = r.error
        /\ last' = [kind |-> "timeout", target |-> "timer", index |-> 0, entries |-> <<>>]
        /\ calls' = <<>>
        /\ prev' = Snapshot
        /\ UNCHANGED <<selected, amountClicked,
          everOpened, confirmClicked>>
        /\ ModalFrame

(***************************************************************************)
(* MODULE 3: StatsAnimation                                                *)
(***************************************************************************)
DigitChars == <<"0", "1", "2", "3", "4", "5", "6", "7", "8", "9">>
IsDigit(ch) == \E i \in 1..10 : DigitChars[i] = ch
DigitValue(ch) == (CHOOSE i \in 1..10 : DigitChars[i] = ch) - 1

\* innerText.replace(/\D/g, '')
StripNonDigits(t) == SelectSeq(t, IsDigit)

\* unary plus on a string of digits; the empty string converts to 0
RECURSIVE ToNumber(_)
ToNumber(ds) ==
    IF ds = <<>> THEN 0
    ELSE 10 * ToNumber(SubSeq(ds, 1, Len(ds) - 1)) + DigitValue(ds[Len(ds)])

\* the decimal digits of a natural number
RECURSIVE ToDigits(_)
ToDigits(n) ==
    IF n < 10 THEN <<DigitChars[n + 1]>>
    ELSE Append(ToDigits(n \div 10), DigitChars[(n % 10) + 1])

\* digits in groups of three from the right, joined by the separator
RECURSIVE Group(_, _)
Group(ds, sep) ==
    IF Len(ds) <= 3 THEN ds
    ELSE Group(SubSeq(ds, 1, Len(ds) - 3), sep) \o <<sep>>
         \o SubSeq(ds, Len(ds) - 2, Len(ds))

\* Number.prototype.toLocaleString() of a positive integer in the host's
\* locale: grouping starts once the leading group has minGroup digits
Locales == {[tag |-> "en-US", sep |-> ",", minGroup |-> 1],
            [tag |-> "es-ES", sep |-> ".", minGroup |-> 2]}
toLocaleString(n, loc) ==
    LET ds == ToDigits(n)
    IN  IF Len(ds) >= 3 + loc.minGroup THEN Group(ds, loc.sep) ELSE ds

\* the texts the counter elements can carry in the page's markup
CounterTexts == {<<"1", ",", "2", "5", "0", "+">>, <<"9", "8", "%">>,
                 <<"N", "/", "A">>, <<"0">>}

\* duration / 16: the number of increments that add up to the target
Frames == duration \div FrameMs

\* The accumulator `current` of a chain is runs * target / Frames.  The
\* division and the repeated addition are exact in binary floating point
\* when Frames divides the target; otherwise the accumulated value may lie
\* just below (dev = -1) or just above (dev = 1) the exact one, which shows
\* only where the exact value is an integer.  A chain's field exact records
\* that no run so far took a branch or displayed a value that exact
\* arithmetic would not have given.
Dev == {-1, 0, 1}
EffDev(target, dev) == IF target % Frames = 0 THEN 0 ELSE dev

\* (the comparison taken as current <= target)
BelowInclusive(target, k, dev) ==
    \/ k * target < Frames * target
    \/ k * target = Frames * target /\ EffDev(target, dev) <= 0

\* current < target, after the increment of run number k
Below(target, k, dev) ==
    \/ k * target < Frames * target
    \/ k * target = Frames * target /\ EffDev(target, dev) = -1

\* Math.ceil(current), after the increment of run number k
CeilCurrent(target, k, dev) ==
    IF (k * target) % Frames = 0
    THEN (k * target) \div Frames + (IF EffDev(target, dev) = 1 THEN 1 ELSE 0)
    ELSE (k * target) \div Frames + 1

\* run number k compares or rounds differently than exact arithmetic would
Deviates(target, k, dev) ==
    \/ Below(target, k, dev) # Below(target, k, 0)
    \/ /\ Below(target, k, dev)
       /\ CeilCurrent(target, k, dev) # CeilCurrent(target, k, 0)

\* (updateCount with `counter` shared by the closures of all counters, so
\* every chain writes the last counter's element)
updateCountSharedCounter(st, i, dev, loc) ==
    LET ch == st.chains[i]
        k == ch.runs + 1
    IN  IF Below(ch.target, k, dev)
        THEN [st EXCEPT
                !.chains[i].runs = k,
                !.chains[i].exact = @ /\ ~Deviates(ch.target, k, dev),
                !.text[NumCounters] =
                    toLocaleString(CeilCurrent(ch.target, k, dev), loc),
                !.rafQueue = Append(@, i)]
        ELSE [st EXCEPT
                !.chains[i].runs = k,
                !.chains[i].exact = @ /\ ~Deviates(ch.target, k, dev),
                !.chains[i].done = TRUE,
                !.text[NumCounters] = ch.originalText]

\* (updateCount whose final branch writes the formatted target)
updateCountShowsTarget(st, i, dev, loc) ==
    LET ch == st.chains[i]
        k == ch.runs + 1
    IN  IF Below(ch.target, k, dev)
        THEN [st EXCEPT
                !.chains[i].runs = k,
                !.chains[i].exact = @ /\ ~Deviates(ch.target, k, dev),
                !.text[ch.counter] =
                    toLocaleString(CeilCurrent(ch.target, k, dev), loc),
                !.rafQueue = Append(@, i)]
        ELSE [st EXCEPT
                !.chains[i].runs = k,
                !.chains[i].exact = @ /\ ~Deviates(ch.target, k, dev),
                !.chains[i].done = TRUE,
                !.text[ch.counter] = toLocaleString(ch.target, loc)]

\* one run of updateCount of chain i on the animation state st
updateCount(st, i, dev, loc) ==
    LET ch == st.chains[i]
        k == ch.runs + 1
    IN  IF Below(ch.target, k, dev)
        THEN [st EXCEPT
                !.chains[i].runs = k,
                !.chains[i].exact = @ /\ ~Deviates(ch.target, k, dev),
                !.text[ch.counter] =
                    toLocaleString(CeilCurrent(ch.target, k, dev), loc),
                !.rafQueue = Append(@, i)]
        ELSE [st EXCEPT
                !.chains[i].runs = k,
                !.chains[i].exact = @ /\ ~Deviates(ch.target, k, dev),
                !.chains[i].done = TRUE,
                !.text[ch.counter] = ch.originalText]

\* the body of counters.forEach for counter c: a new closure, then its
\* first updateCount call
StartCounter(st, c, loc) ==
    LET ch == [counter |-> c,
               target |-> ToNumber(StripNonDigits(st.text[c])),
               originalText |-> st.text[c],
               runs |-> 0,
               exact |-> TRUE,
               done |-> FALSE]
        st1 == [st EXCEPT !.chains = Append(@, ch)]
    IN  updateCount(st1, Len(st1.chains), 0, loc)

\* animateCounters: counters.forEach from counter c on
RECURSIVE animateCountersFrom(_, _, _)
animateCountersFrom(st, c, loc) ==
    IF c > NumCounters THEN st
    ELSE animateCountersFrom(StartCounter(st, c, loc), c + 1, loc)

animateCounters(st, loc) == animateCountersFrom(st, 1, loc)

\* (the same test without the entry's isIntersecting)
ShouldAnimateIgnoringIntersection(isIntersecting, animated) == ~animated

\* (the same test without the one-shot flag)
ShouldAnimateIgnoringFlag(isIntersecting, animated) == isIntersecting

\* the observer callback's test of one entry
ShouldAnimate(isIntersecting, animated) == isIntersecting /\ ~animated

\* the observer callback: entries.forEach from entry number n on
RECURSIVE forEachEntry(_, _, _, _)
forEachEntry(st, entries, n, loc) ==
    IF n > Len(entries) THEN st
    ELSE IF ShouldAnimate(entries[n], st.hasAnimated)
         THEN LET a == animateCounters(
                          [text |-> st.text, chains |-> st.chains,
                           rafQueue |-> st.rafQueue], loc)
              IN  forEachEntry(
                      [text |-> a.text, chains |-> a.chains,
                       rafQueue |-> a.rafQueue,
                       hasAnimated |-> TRUE,
                       observing |-> FALSE,
                       animateCalls |-> st.animateCalls + 1,
                       calls |-> st.calls \o <<"animateCounters", "unobserve">>],
                      entries, n + 1, loc)
         ELSE forEachEntry(st, entries, n + 1, loc)

EntryLists == UNION {[1..n -> BOOLEAN] : n \in 1..MaxEntries}

StatsFrame == UNCHANGED <<dom, navVars, modalVars, locale, toggles, amountClicked,
          everOpened, confirmClicked>>

\* the IntersectionObserver delivers a batch of entries for .stats-section
ObserverCallback(entries) ==
    LET st == forEachEntry(
                  [text |-> text, chains |-> chains, rafQueue |-> rafQueue,
                   hasAnimated |-> hasAnimated, observing |-> observing,
                   animateCalls |-> animateCalls, calls |-> <<>>],
                  entries, 1, locale)
    IN  /\ Idle
        /\ dom.statsSection
        /\ observing
        /\ text' = st.text
        /\ chains' = st.chains
        /\ rafQueue' = st.rafQueue
        /\ hasAnimated' = st.hasAnimated
        /\ observing' = st.observing
        /\ animateCalls' = st.animateCalls
        /\ calls' = st.calls
        /\ last' = [kind |-> "observer", target |-> "statsSection",
                    index |-> 0, entries |-> entries]
        /\ prev' = Snapshot
        /\ error' = "none"
        /\ UNCHANGED frameBatch
        /\ StatsFrame

\* the browser runs the next requestAnimationFrame callback: the first of
\* the frame in progress, or of a new frame that takes all requested ones
FrameCallback ==
    LET batch == IF frameBatch = <<>> THEN rafQueue ELSE frameBatch
        queue == IF frameBatch = <<>> THEN <<>> ELSE rafQueue
    IN  /\ batch # <<>>
        /\ \E dev \in Dev :
             LET st == updateCount([text |-> text, chains |-> chains,
                                    rafQueue |-> queue],
                                   Head(batch), dev, locale)
             IN  /\ text' = st.text
                 /\ chains' = st.chains
                 /\ rafQueue' = st.rafQueue
        /\ frameBatch' = Tail(batch)
        /\ last' = [kind |-> "frame", target |-> "counter",
                    index |-> chains[Head(batch)].counter,
                    entries |-> <<>>]
        /\ calls' = <<>>
        /\ prev' = Snapshot
        /\ error' = "none"
        /\ UNCHANGED <<hasAnimated, observing, animateCalls>>
        /\ StatsFrame

(***************************************************************************)
(* The page after DOMContentLoaded (App.init has run) and its events       *)
(***************************************************************************)
\* The markup the script runs on is not part of the script.  The page is
\* taken as the specification describes it at load: the menu closed in all
\* three representations, the overlay hidden, no inline display or opacity
\* on the step containers and the button, the button enabled with its
\* default label.  Which amount buttons are marked, the counters' texts and
\* the host locale are left open.
InitialMenu == ClosedMenu
InitialModal == [visible |-> FALSE, step1 |-> "", step2 |-> "",
                 label |-> DefaultLabel, opacity |-> "", disabled |-> FALSE]

\* the page after App.init, d telling which elements the lookups found
PageLoaded(d) ==
    /\ dom = d
    /\ menu = InitialMenu
    /\ scrolledTo = ""
    /\ modal = InitialModal
    /\ selected \in SUBSET AmountBtns
    /\ timers = <<>>
    /\ hasAnimated = FALSE
    /\ observing = dom.statsSection
    /\ text \in [Counters -> CounterTexts]
    /\ chains = <<>>
    /\ rafQueue = <<>>
    /\ frameBatch = <<>>
    /\ locale \in Locales
    /\ last = [kind |-> "init", target |-> "", index |-> 0, entries |-> <<>>]
    /\ calls = <<>>
    /\ prev = Snapshot
    /\ error = "none"
    /\ animateCalls = 0
    /\ toggles = 0
    /\ amountClicked = FALSE
    /\ everOpened = FALSE
    /\ confirmClicked = FALSE

Init == PageLoaded(AllPresent)

NavNext ==
    \/ ToggleClick
    \/ \E frag \in Links : LinkClick(frag)

ModalNext ==
    \/ \E b \in OpenButtons : OpenClick(b)
    \/ CloseClick
    \/ CloseSuccessClick
    \/ BackdropClick
    \/ ContentClick
    \/ \E btn \in AmountBtns : AmountClick(btn)
    \/ ProcessClick
    \/ PaymentTimeout

StatsNext ==
    \/ \E entries \in EntryLists : ObserverCallback(entries)
    \/ FrameCallback

Next == NavNext \/ ModalNext \/ StatsNext

Spec == Init /\ [][Next]_vars

\* one controller at a time, the rest of the page as loaded
DefaultText == [c \in Counters |-> <<"9", "8", "%">>]
DefaultLocale == [tag |-> "en-US", sep |-> ",", minGroup |-> 1]

NavInit == Init /\ selected = {} /\ text = DefaultText /\ locale = DefaultLocale
NavSpec == NavInit /\ [][NavNext]_vars

ModalInit == Init /\ text = DefaultText /\ locale = DefaultLocale
ModalSpec == ModalInit /\ [][ModalNext]_vars
\* a timer that was set fires
ModalFairSpec == ModalSpec /\ WF_vars(PaymentTimeout)

\* pages that lack some of the elements a controller looks up
NavDoms == {d \in [ElementNames -> BOOLEAN] :
              \A e \in ElementNames \ {"menuToggle", "mainNav"} : d[e]}
ModalDoms == {d \in [ElementNames -> BOOLEAN] :
                d.menuToggle /\ d.mainNav /\ d.statsSection}

NavMissingInit ==
    /\ \E d \in NavDoms : PageLoaded(d)
    /\ selected = {} /\ text = DefaultText /\ locale = DefaultLocale
NavMissingSpec == NavMissingInit /\ [][NavNext]_vars

ModalMissingInit ==
    /\ \E d \in ModalDoms : PageLoaded(d)
    /\ selected = {} /\ text = DefaultText /\ locale = DefaultLocale
ModalMissingSpec == ModalMissingInit /\ [][ModalNext]_vars

StatsInit == Init /\ selected = {}
StatsSpec == StatsInit /\ [][StatsNext]_vars
\* the section comes into view and frames keep being delivered
StatsFairSpec == StatsSpec /\ WF_vars(FrameCallback)

\* The three controllers' events interleaved, for a short stretch of each
\* controller's life: few toggle clicks, one pending payment at a time, the
\* first runs of every counter, one scroll target, one donate trigger, one
\* amount button.
FrameBound ==
    /\ toggles <= FrameToggles
    /\ Len(timers) <= FrameTimers
    /\ \A i \in 1..Len(chains) : chains[i].runs <= FrameRuns
    /\ scrolledTo \in {"", "team"}
    /\ selected \subseteq {1}
    /\ last.kind = "open" => last.index = 1

FrameInit == Init /\ selected = {} /\ text = DefaultText /\ locale = DefaultLocale
FrameNext == Next /\ FrameBound'
FrameSpec == FrameInit /\ [][FrameNext]_vars

(***************************************************************************)
(* Properties                                                              *)
(***************************************************************************)
OpenMenu == [open |-> TRUE, aria |-> "true", glyph |-> OpenGlyph]

\* C1 (ModalSpec, page with both step containers and the process button):
\* when the open handler of a donate trigger returns, whatever state it
\* started from, the modal is visible, step 1 is shown, step 2 is hidden and
\* the process button is enabled with its default label and opacity "1".
C1_OpenResetsModal ==
    (last.kind = "open" /\ dom.step1 /\ dom.step2 /\ dom.processBtn)
        => /\ modal.visible
           /\ Step1Shown(modal)
           /\ ~modal.disabled
           /\ modal.label = DefaultLabel
           /\ modal.opacity = "1"

\* an open click that started from a visible modal on step 2 whose button
\* was disabled and read 'Procesando...'
C1_Witness ==
    /\ last.kind = "open"
    /\ prev.modal.visible
    /\ Step2Shown(prev.modal)
    /\ prev.modal.disabled
    /\ prev.modal.label = ProcessingLabel
    /\ Step1Shown(modal)
    /\ ~modal.disabled

\* C2: after a confirm click made while step 1 was shown, step 1 stays
\* shown and step 2 hidden for as long as the timer set by that click is
\* pending.
C2_Step1UntilOwnTimerFires ==
    \A i \in 1..Len(timers) : timers[i].sawStep1 => Step1Shown(modal)

\* C2, the parts the handlers do satisfy: the click disables the button and
\* sets the processing label at once and sets one timer of 2000 ms; the
\* timer callback shows step 2, hides step 1 and leaves the button alone.
C2_ClickAndCallbackEffects ==
    /\ last.kind = "process"
         => /\ modal.disabled
            /\ modal.label = ProcessingLabel
            /\ modal.opacity = "0.7"
            /\ timers # <<>>
            /\ timers[Len(timers)].delay = 2000
            /\ modal.step1 = prev.modal.step1
            /\ modal.step2 = prev.modal.step2
    /\ last.kind = "timeout"
         => /\ Step2Shown(modal)
            /\ modal.disabled = prev.modal.disabled
            /\ modal.label = prev.modal.label
            /\ modal.opacity = prev.modal.opacity

\* C2, under fairness of the timer: every pending timer fires, so every
\* confirm click is followed by a state where the callback has shown step 2.
C2_EveryTimerFires ==
    (timers # <<>>) ~> (last.kind = "timeout" /\ Step2Shown(modal))

\* C3 (StatsSpec): animateCounters is invoked at most once per page load.
C3_AnimateAtMostOnce == animateCalls <= 1

\* one callback delivered two intersecting entries; the animation ran once
C3_Witness ==
    /\ last.kind = "observer"
    /\ last.entries = <<TRUE, TRUE>>
    /\ hasAnimated
    /\ animateCalls = 1

NonDigits(t) == {t[j] : j \in 1..Len(t)} \ {DigitChars[i] : i \in 1..10}
Scheduled(i) ==
    \/ \E j \in 1..Len(rafQueue) : rafQueue[j] = i
    \/ \E j \in 1..Len(frameBatch) : frameBatch[j] = i

\* C4 as stated: while a counter is still counting, its displayed text
\* contains none of the non-digit characters of its original text.
C4_NoOriginalSymbolWhileCounting ==
    \A i \in 1..Len(chains) :
        ~chains[i].done
            => NonDigits(text[chains[i].counter])
                   \cap NonDigits(chains[i].originalText) = {}

\* while a counter is still counting, its displayed text is a number of
\* 1..target written with digits and the locale's grouping separator only,
\* so it contains none of the original's other non-digit characters
C4_CountingDisplay ==
    \A i \in 1..Len(chains) :
        ~chains[i].done
            => LET shown == text[chains[i].counter]
                   value == ToNumber(StripNonDigits(shown))
               IN  /\ Scheduled(i)
                   /\ NonDigits(shown) \subseteq {locale.sep}
                   /\ shown = toLocaleString(value, locale)
                   /\ value \in 1..chains[i].target
                   /\ NonDigits(shown)
                          \cap (NonDigits(chains[i].originalText) \ {locale.sep})
                      = {}

\* the chain of counter c has ended: the original text is displayed and no
\* frame is scheduled for it
CounterFinished(c) ==
    \E i \in 1..Len(chains) :
        /\ chains[i].counter = c
        /\ chains[i].done
        /\ ~Scheduled(i)
        /\ text[c] = chains[i].originalText

\* C4 (StatsFairSpec), amended: once the animation has started, and frames
\* keep being delivered, every counter's chain ends for good with the
\* original text displayed verbatim and no frame scheduled; every text
\* displayed before that consists of digits and the locale's grouping
\* separator only.
C4_CounterChainEnds ==
    /\ []C4_CountingDisplay
    /\ \A c \in Counters : [](hasAnimated => <>[]CounterFinished(c))

\* the counter that read "1,250+" shows it again after 125 runs
C4_Witness ==
    \E i \in 1..Len(chains) :
        /\ chains[i].originalText = <<"1", ",", "2", "5", "0", "+">>
        /\ chains[i].target = 1250
        /\ chains[i].done
        /\ chains[i].runs = Frames
        /\ ~Scheduled(i)
        /\ text[chains[i].counter] = chains[i].originalText

C6_ToggleParity ==
    /\ toggles % 2 = 0 => menu = ClosedMenu
    /\ toggles % 2 = 1 => menu = OpenMenu

\* four toggle clicks in a row
C6_Witness == last.kind = "toggle" /\ toggles = 4 /\ ~menu.open

\* C7 (NavSpec): closeMenu on a closed menu changes nothing, on an open
\* menu it yields the closed state, and a second closeMenu changes nothing;
\* the state a handler that called closeMenu leaves agrees with that.
C7_CloseMenuIdempotent ==
    LET once == CloseMenu(menu, dom).menu
        twice == CloseMenu(once, dom).menu
    IN  /\ ~menu.open => once = menu
        /\ menu.open => once = ClosedMenu
        /\ twice = once
        /\ (last.kind = "link" /\ Called("closeMenu", calls))
             => menu = IF prev.menu.open THEN ClosedMenu ELSE prev.menu

\* closeMenu was called on a menu that an earlier call had already closed
C7_Witness ==
    /\ last.kind = "link"
    /\ Called("closeMenu", calls)
    /\ ~prev.menu.open
    /\ menu = prev.menu
    /\ scrolledTo # ""

\* C8 (ModalSpec): a click on the modal root hides the modal; a click on
\* an element of its content other than the two close controls leaves its
\* visibility as it was; a click on either close control hides it.
C8_BackdropOnlyDismissal ==
    /\ last.kind = "backdrop" => ~modal.visible
    /\ last.kind \in {"content", "amount", "process"}
         => modal.visible = prev.modal.visible
    /\ last.kind = "close" => ~modal.visible

\* a click inside the content of the visible modal, on step 2
C8_Witness ==
    /\ last.kind = "content"
    /\ prev.modal.visible
    /\ Step2Shown(prev.modal)
    /\ modal.visible

\* C9 (ModalSpec): after a click on amount button B exactly B is selected,
\* and once an amount button has been clicked at most one is selected.
C9_SingleSelection ==
    /\ last.kind = "amount" => selected = {last.index}
    /\ amountClicked => Cardinality(selected) <= 1

\* button 2 clicked while button 1 was the selected one
C9_Witness ==
    /\ last.kind = "amount"
    /\ prev.selected = {1}
    /\ selected = {2}

\* C10: when the modal is opened from hidden, no amount button that was
\* selected by a click in an earlier session is still marked.
C10_OpenClearsSelection ==
    (last.kind = "open" /\ ~prev.modal.visible /\ amountClicked)
        => selected = {}

\* C11: in a page that has the modal root but lacks a step container,
\* neither an open click nor the payment timer callback ends with an error;
\* in a page without the modal root no DonationModal handler ever runs.
C11_MissingStepSkipped ==
    /\ (dom.modal /\ (~dom.step1 \/ ~dom.step2)
          /\ last.kind \in {"open", "timeout"})
         => error = "none"
    /\ ~dom.modal => last.kind = "init"

\* C11, the part the code does satisfy: without the modal root nothing is
\* attached, and a missing close control or process button raises nothing
C11_GuardedElements ==
    /\ ~dom.modal => last.kind = "init"
    /\ (dom.step1 /\ dom.step2) => error = "none"

\* C12: in a page that lacks the menu toggle or the navigation panel, no
\* toggle listener runs, the menu state is never written, and every link
\* click that calls closeMenu ends without an error.
C12_NavigationNoOp ==
    (~dom.menuToggle \/ ~dom.mainNav)
        => /\ last.kind # "toggle"
           /\ menu = InitialMenu
           /\ Called("closeMenu", calls) => error = "none"

\* C12, the part the code does satisfy: nothing is attached to the toggle,
\* and with the panel present closeMenu finds it closed and returns
C12_PanelPresentNoError ==
    /\ (~dom.menuToggle \/ ~dom.mainNav) => last.kind # "toggle"
    /\ dom.mainNav => error # "TypeError"

\* C13 (ModalSpec): no open, close or backdrop click removes a pending
\* payment timer, and a timer that fires on a visible modal whose button is
\* enabled leaves it visible on step 2 with the button still enabled and
\* carrying its default label.
C13_TimerSurvivesReopen ==
    /\ [][last'.kind \in {"open", "close", "backdrop"} => timers' = timers]_vars
    /\ []((last.kind = "timeout" /\ prev.modal.visible /\ ~prev.modal.disabled)
            => /\ modal.visible
               /\ Step2Shown(modal)
               /\ ~modal.disabled
               /\ modal.label = DefaultLabel)

\* the timer of an earlier session fired on the reopened, reset modal
C13_Witness ==
    /\ last.kind = "timeout"
    /\ confirmClicked
    /\ prev.modal.visible
    /\ Step1Shown(prev.modal)
    /\ modal.visible
    /\ Step2Shown(modal)
    /\ ~modal.disabled
    /\ modal.label = DefaultLabel
    /\ modal.opacity = "1"

\* C14 (ModalSpec, page with both step containers): once the modal has been
\* opened, step 1 is displayed exactly when step 2 is not.
C14_ExactlyOneStep ==
    (everOpened /\ dom.step1 /\ dom.step2)
        => /\ modal.step1 \in {"block", "none"}
           /\ modal.step2 \in {"block", "none"}
           /\ (modal.step1 = "block") <=> (modal.step2 = "none")

\* a timer fired after the modal was closed: step 2 alone is displayed
C14_Witness ==
    /\ everOpened
    /\ last.kind = "timeout"
    /\ ~modal.visible
    /\ modal.step1 = "none"
    /\ modal.step2 = "block"

C16_MenuConsistent ==
    /\ menu.aria \in {"true", "false"}
    /\ menu.glyph \in {OpenGlyph, ClosedGlyph}
    /\ menu.open <=> (menu.aria = "true")
    /\ (menu.aria = "true") <=> (menu.glyph = OpenGlyph)

\* the menu was opened, closed by a link click, and opened again
C16_Witness ==
    /\ last.kind = "toggle"
    /\ toggles = 1
    /\ scrolledTo # ""
    /\ prev.menu = ClosedMenu
    /\ menu = OpenMenu

\* what a delivered observer callback leaves, by the entries it was given
C17_CallbackOutcome ==
    /\ hasAnimated <=> ~observing
    /\ hasAnimated <=> (animateCalls = 1)
    /\ last.kind = "observer"
         => IF \E n \in 1..Len(last.entries) : last.entries[n]
            THEN /\ calls = <<"animateCounters", "unobserve">>
                 /\ hasAnimated
                 /\ ~observing
            ELSE /\ calls = <<>>
                 /\ ~hasAnimated
                 /\ observing
                 /\ chains = <<>>

\* C17 (StatsSpec): a delivered observer callback starts the animation
\* exactly when one of its entries is intersecting, and then sets the flag
\* and unobserves the section in the same step; a callback with only
\* non-intersecting entries starts nothing; once the section is unobserved
\* it stays unobserved and no observer callback is delivered any more.
C17_AnimateOnFirstIntersection ==
    /\ []C17_CallbackOutcome
    /\ [][~observing => (~observing' /\ hasAnimated'
                           /\ last'.kind # "observer")]_vars

\* a callback whose first entry is not intersecting and whose second is
C17_Witness ==
    /\ last.kind = "observer"
    /\ last.entries = <<FALSE, TRUE>>
    /\ calls = <<"animateCounters", "unobserve">>
    /\ hasAnimated
    /\ ~observing

\* Math.ceil(k * target / Frames) in integer arithmetic
ExactCeil(target, k) == (k * target + Frames - 1) \div Frames

\* the state of every chain whose arithmetic has been exact so far
C18_ExactChain ==
    \A i \in 1..Len(chains) :
        LET ch == chains[i]
            shown == text[ch.counter]
        IN  ch.exact =>
              IF ch.target > 0
              THEN /\ ch.runs \in 1..Frames
                   /\ ch.done <=> (ch.runs = Frames)
                   /\ ~ch.done
                        => /\ shown = toLocaleString(
                                          ExactCeil(ch.target, ch.runs), locale)
                           /\ ExactCeil(ch.target, ch.runs) \in 1..ch.target
                           /\ Scheduled(i)
                   /\ ch.done
                        => /\ shown = ch.originalText
                           /\ ~Scheduled(i)
              ELSE /\ ch.runs = 1
                   /\ ch.done
                   /\ ~Scheduled(i)
                   /\ shown = ch.originalText

\* a run of an exact chain that keeps counting never lowers the number shown
C18_NonDecreasing ==
    \A i \in 1..Len(chains) :
        (chains[i].exact /\ chains'[i].exact /\ ~chains'[i].done)
            => ToNumber(StripNonDigits(text'[chains[i].counter]))
                   >= ToNumber(StripNonDigits(text[chains[i].counter]))

\* C18 (StatsSpec): with exact arithmetic a counter of target T > 0 runs
\* updateCount Frames = 125 times; run k < 125 displays ceil(k * T / 125), a
\* value of 1..T that never decreases, and schedules a frame; run 125
\* displays the original text and schedules nothing.  A counter of target
\* 0 (also one without digits) ends in its first run, with no frame.
C18_ExactRunCount ==
    /\ []C18_ExactChain
    /\ [][C18_NonDecreasing]_vars

\* a counter of target 98 ended at run 125, next to one that had no digits
C18_Witness ==
    \E i, j \in 1..Len(chains) :
        /\ chains[i].target = 98
        /\ chains[i].exact
        /\ chains[i].done
        /\ chains[i].runs = Frames
        /\ text[chains[i].counter] = <<"9", "8", "%">>
        /\ chains[j].originalText = <<"N", "/", "A">>
        /\ chains[j].target = 0
        /\ chains[j].runs = 1

\* C19 as stated (NavSpec): a click on a fragment link whose href is not
\* '#' and matches no element performs no scroll, does not call closeMenu,
\* raises no error and leaves the menu state unchanged.
C19_UnmatchedLinkSilent ==
    (last.kind = "link" /\ last.target # "" /\ last.target \notin ElementIds)
        => /\ ~Called("scrollIntoView", calls)
           /\ ~Called("closeMenu", calls)
           /\ menu = prev.menu
           /\ error = "none"

\* what does hold for such a click: no scroll, no closeMenu, the menu as it
\* was; and no error when the href is a valid selector
C19_UnmatchedLinkNoEffect ==
    (last.kind = "link" /\ last.target # "" /\ last.target \notin ElementIds)
        => /\ calls = <<"preventDefault">>
           /\ menu = prev.menu
           /\ last.target \notin InvalidSelectors => error = "none"

ModalKinds == {"open", "close", "backdrop", "content", "amount", "process",
               "timeout"}
StatsKinds == {"observer", "frame"}
NavKinds == {"toggle", "link"}

\* what one step of the controller named by last'.kind leaves alone
C20_FrameRule ==
    /\ last'.kind \in ModalKinds \cup StatsKinds => UNCHANGED navVars
    /\ last'.kind \in NavKinds \cup StatsKinds => UNCHANGED modalVars
    /\ last'.kind \in NavKinds \cup ModalKinds
         => UNCHANGED <<statsVars, animateCalls>>
    /\ last'.kind = "frame"
         => /\ \A c \in Counters \ {last'.index} : text'[c] = text[c]
            /\ \A i \in 1..Len(chains) :
                 chains[i].counter # last'.index => chains'[i] = chains[i]
            /\ Len(chains') = Len(chains)

\* C20 (FrameSpec): every DonationModal and every StatsAnimation step
\* leaves the menu (and the scroll position) unchanged; every Navigation
\* and SmoothScroll step leaves the modal, the selection, the timers and
\* the counters' state unchanged; modal and counter steps leave each
\* other's state unchanged; a frame step of one counter leaves every other
\* counter's text and accumulator unchanged.
C20_ControllersIndependent == [][C20_FrameRule]_vars

\* a counter frame ran while the menu was open and the modal was visible
\* with a payment pending
C20_Witness ==
    /\ last.kind = "frame"
    /\ last.index = 1
    /\ menu = OpenMenu
    /\ prev.menu = OpenMenu
    /\ modal.visible
    /\ timers # <<>>
    /\ selected # {}

====
